---- MODULE Spec2Model ----
(***************************************************************************)
(* Model of the Sectra DICOM annotation converters:                        *)
(*   sectra_dicom_to_qupath.py     (geometry / GeoJSON converter)          *)
(*   sectra_dicom_to_imagescope.py (ImageScope XML converter)              *)
(*                                                                         *)
(* Floating point values are modelled in fixed point: a Python float f is  *)
(* the integer f * Milli.  Widths and heights are plain integers (pixels). *)
(***************************************************************************)
EXTENDS Integers, Sequences, FiniteSets, TLC

VARIABLES
    env,          \* what the run meets: arguments, files, libraries
    ds,           \* the DICOM dataset (display-area hint, annotation entries)
    pc,           \* position of the run of main / dicom_to_geojson
    exc,          \* the call whose exception reached the outer handler
    image_width,  \* dicom_to_geojson: image_width (None or a number)
    image_height, \* dicom_to_geojson: image_height
    gi,           \* index of the next annotation group
    graphic_objects, \* dicom_to_geojson: graphic_objects of the last group
    features,     \* dicom_to_geojson: features
    out_file,     \* the output file on disk
    result,       \* the value dicom_to_geojson returns
    exit_code,    \* the exit code of the process
    handles,      \* the slide, the PIL image and the output file of the run:
                  \* never opened ("none"), "open" or "closed"
    dPayload,     \* decoder harness: the payload handed to the decoders
    dRobust,      \* decoder harness: outcome of extract_coordinates_robust
    dImageScope,  \* decoder harness: outcome of _extract_coordinates
    cEntry,       \* circle harness: the CIRCLE entry handed to the walker
    cObject,      \* circle harness: the object the walker built from it
    sCoordinates, \* scaling harness: the points handed to scale_coordinates
    sWidth,       \* scaling harness: image_width (None or a number)
    sHeight,      \* scaling harness: image_height
    sScaled,      \* scaling harness: what scale_coordinates returned
    xenv,         \* ImageScope converter: what its run meets
    xpc,          \* ImageScope converter: position of dicom_file_to_imagescope
    xi,           \* ImageScope converter: index of the next annotation group
    ann_id,       \* dicom_to_imagescope_xml: ann_id
    region_id,    \* dicom_to_imagescope_xml: region_id
    root,         \* dicom_to_imagescope_xml: the Annotation children of root
    xml_file,     \* the ImageScope output file on disk
    xf            \* dicom_file_to_imagescope: f, "none", "open" or "closed"

geoVars == <<env, ds, pc, exc, image_width, image_height, gi, graphic_objects,
             features, out_file, result, exit_code, handles>>
decVars == <<dPayload, dRobust, dImageScope>>
circleVars == <<cEntry, cObject>>
scaleVars == <<sCoordinates, sWidth, sHeight, sScaled>>
xmlVars == <<xenv, xpc, xi, ann_id, region_id, root, xml_file, xf>>
harnessVars == <<decVars, circleVars, scaleVars, xmlVars>>
vars == <<geoVars, harnessVars>>

(***************************************************************************)
(* Bounds of the model.                                                    *)
(***************************************************************************)
MaxTextLen == 4
MaxListLen == 4
MaxItems == 2
MaxCoord == 3
MaxPoints == 2
MaxDim == 2

Milli == 10 * 100

Abs(i) == IF i < 0 THEN -i ELSE i

(***************************************************************************)
(* Payloads.  A text is a sequence of characters; a token of a native      *)
(* sequence is a Python number, a Python str or None.                      *)
(***************************************************************************)
Backslash == "\\"
Digits == <<"0", "1", "2", "3", "4", "5", "6", "7", "8", "9">>
Chars == {"1", "2", ".", "x", Backslash}

SeqsUpTo(S, n) == UNION {[1..k -> S] : k \in 0..n}

Texts == SeqsUpTo(Chars, MaxTextLen)

NumTok(n) == [kind |-> "num", num |-> n, text |-> <<>>]
StrTok(t) == [kind |-> "str", num |-> 0, text |-> t]
NoneTok == [kind |-> "none", num |-> 0, text |-> <<>>]

Tokens == {NumTok(1), NumTok(2), StrTok(<<"2">>), StrTok(<<"x">>), NoneTok}

ListPayload(items) == [kind |-> "list", items |-> items, text |-> <<>>]
TextPayload(t) == [kind |-> "text", items |-> <<>>, text |-> t]
ScalarPayload(n) == [kind |-> "scalar", items |-> <<NumTok(n)>>, text |-> <<>>]
NonePayload == [kind |-> "none", items |-> <<>>, text |-> <<>>]

Payloads ==
    {ListPayload(s) : s \in SeqsUpTo(Tokens, MaxListLen)}
        \cup {TextPayload(t) : t \in Texts}
        \cup {ScalarPayload(n) : n \in 1..2}
        \cup {NonePayload}

(***************************************************************************)
(* Python's str(), str.split() and float() on the values above.            *)
(***************************************************************************)
IsDigit(c) == \E i \in 1..10 : Digits[i] = c
DigitVal(c) == (CHOOSE i \in 1..10 : Digits[i] = c) - 1

RECURSIVE DecimalText(_)
DecimalText(n) ==
    IF n < 10 THEN <<Digits[n + 1]>>
    ELSE DecimalText(n \div 10) \o <<Digits[(n % 10) + 1]>>

\* str(x) of a float with an integral value, e.g. str(2.0) = "2.0"
StrOfNum(n) == DecimalText(n) \o <<".", "0">>

\* str(x) of a token
StrOfToken(tok) ==
    CASE tok.kind = "num" -> StrOfNum(tok.num)
      [] tok.kind = "str" -> tok.text
      [] OTHER -> <<"N", "o", "n", "e">>

\* str(x).split("\\")
RECURSIVE SplitFrom(_, _, _)
SplitFrom(t, i, cur) ==
    IF i > Len(t) THEN <<cur>>
    ELSE IF t[i] = Backslash THEN <<cur>> \o SplitFrom(t, i + 1, <<>>)
    ELSE SplitFrom(t, i + 1, Append(cur, t[i]))

Split(t) == SplitFrom(t, 1, <<>>)

HasBackslash(t) == \E i \in 1..Len(t) : t[i] = Backslash

AllDigits(t) == \A i \in 1..Len(t) : IsDigit(t[i])

RECURSIVE DecimalValue(_)
DecimalValue(t) ==
    IF Len(t) = 0 THEN 0
    ELSE 10 * DecimalValue(SubSeq(t, 1, Len(t) - 1)) + DigitVal(t[Len(t)])

\* the first three fractional digits, in thousandths
FractionMilli(t) ==
    LET d(i) == IF i <= Len(t) THEN DigitVal(t[i]) ELSE 0
    IN  100 * d(1) + 10 * d(2) + d(3)

DotAt(t) == {i \in 1..Len(t) : t[i] = "."}

\* float(s) of a str: digits with at most one decimal point and at least
\* one digit; anything else raises ValueError.
FloatParses(t) ==
    \/ Len(t) > 0 /\ AllDigits(t)
    \/ \E i \in DotAt(t) :
          /\ AllDigits(SubSeq(t, 1, i - 1))
          /\ AllDigits(SubSeq(t, i + 1, Len(t)))
          /\ Len(t) > 1

FloatOfText(t) ==
    IF DotAt(t) = {} THEN Milli * DecimalValue(t)
    ELSE LET i == CHOOSE j \in DotAt(t) : TRUE
         IN  Milli * DecimalValue(SubSeq(t, 1, i - 1))
                 + FractionMilli(SubSeq(t, i + 1, Len(t)))

(***************************************************************************)
(* A call's outcome: a value, or an exception escaping the call.           *)
(***************************************************************************)
Value(v) == [exc |-> FALSE, val |-> v]
Raised == [exc |-> TRUE, val |-> 0]

\* sectra_dicom_to_qupath.py: parse_float_from_coordinate
ParseFloatNoFallback(tok) ==
    CASE tok.kind = "num" -> Value(Milli * tok.num)
      [] tok.kind = "str" /\ FloatParses(tok.text) -> Value(FloatOfText(tok.text))
      [] OTHER -> Raised

parse_float_from_coordinate(tok) ==
    CASE tok.kind = "num" -> Value(Milli * tok.num)
      [] tok.kind = "str" /\ FloatParses(tok.text) -> Value(FloatOfText(tok.text))
      [] FloatParses(StrOfToken(tok)) -> Value(FloatOfText(StrOfToken(tok)))
      [] OTHER -> Value(0)

\* sectra_dicom_to_imagescope.py: _parse_float
ParseFloat(tok) ==
    CASE tok.kind = "num" -> Milli * tok.num
      [] tok.kind = "str" /\ FloatParses(tok.text) -> FloatOfText(tok.text)
      [] OTHER -> 0

\* the pairing loop: for i in range(0, len(parts), 2): if i+1 < len(parts)
\* a pair whose parse raises is reported and skipped (inner except)
RECURSIVE PairsFromPadded(_, _)
PairsFromPadded(parts, i) ==
    IF i > Len(parts) THEN <<>>
    ELSE LET x == parse_float_from_coordinate(parts[i])
             y == IF i + 1 <= Len(parts)
                  THEN parse_float_from_coordinate(parts[i + 1])
                  ELSE Value(0)
         IN  (IF x.exc \/ y.exc THEN <<>> ELSE <<(<<x.val, y.val>>)>>)
                 \o PairsFromPadded(parts, i + 2)

RECURSIVE PairsFrom(_, _)
PairsFrom(parts, i) ==
    IF i > Len(parts) THEN <<>>
    ELSE IF i + 1 <= Len(parts)
    THEN LET x == parse_float_from_coordinate(parts[i])
             y == parse_float_from_coordinate(parts[i + 1])
         IN  (IF x.exc \/ y.exc THEN <<>> ELSE <<(<<x.val, y.val>>)>>)
                 \o PairsFrom(parts, i + 2)
    ELSE PairsFrom(parts, i + 2)

StrTokens(parts) == [k \in 1..Len(parts) |-> StrTok(parts[k])]

\* str(graphic_data) of a payload that is not a list or tuple
StrOfPayload(p) ==
    CASE p.kind = "text" -> p.text
      [] p.kind = "scalar" -> StrOfNum(p.items[1].num)
      [] OTHER -> <<"N", "o", "n", "e">>

\* sectra_dicom_to_qupath.py: extract_coordinates_robust
extract_coordinates_robust(p) ==
    IF p.kind # "list"
    THEN LET str_val == StrOfPayload(p)
         IN  IF HasBackslash(str_val)
             THEN PairsFrom(StrTokens(Split(str_val)), 1)
             ELSE <<>>
    ELSE PairsFrom(p.items, 1)

RECURSIVE PairsFromImageScope(_, _)
PairsFromImageScope(parts, i) ==
    IF i > Len(parts) THEN <<>>
    ELSE IF i + 1 <= Len(parts)
    THEN <<(<<ParseFloat(parts[i]), ParseFloat(parts[i + 1])>>)>>
             \o PairsFromImageScope(parts, i + 2)
    ELSE PairsFromImageScope(parts, i + 2)

\* sectra_dicom_to_imagescope.py: _extract_coordinates
ExtractCoordinates(p) ==
    IF p.kind = "none" THEN <<>>
    ELSE IF p.kind = "list" THEN PairsFromImageScope(p.items, 1)
    ELSE PairsFromImageScope(StrTokens(Split(StrOfPayload(p))), 1)

(***************************************************************************)
(* Geometry.  np.sqrt, np.cos and np.sin in fixed point.                   *)
(***************************************************************************)
NumPoints == 36

RECURSIVE SqrtBetween(_, _, _)
SqrtBetween(n, lo, hi) ==
    IF lo >= hi THEN lo
    ELSE LET mid == (lo + hi + 1) \div 2
         IN  IF mid * mid <= n THEN SqrtBetween(n, mid, hi)
             ELSE SqrtBetween(n, lo, mid - 1)

\* the integer square root of dx*dx + dy*dy: np.sqrt in fixed point
SqrtOfSquares(dx, dy) == SqrtBetween(dx * dx + dy * dy, 0, Abs(dx) + Abs(dy))

RoundDiv(a, b) == (2 * a + b) \div (2 * b)

\* Milli * cos of 0, 10, ..., 90 degrees
CosTable == <<1000, 985, 940, 866, 766, 643, 500, 342, 174, 0>>

\* Milli * cos(d degrees), d a multiple of 10
CosMilli(d) ==
    LET a == d % 360
    IN  CASE a <= 90 -> CosTable[(a \div 10) + 1]
          [] a <= 180 -> -CosTable[((180 - a) \div 10) + 1]
          [] a <= 270 -> -CosTable[((a - 180) \div 10) + 1]
          [] OTHER -> CosTable[((360 - a) \div 10) + 1]

SinMilli(d) == CosMilli(d + 270)

\* np.linspace(0, 2*np.pi, num_points, endpoint=False), in degrees
Angles(num_points) == [k \in 1..num_points |-> ((k - 1) * 360) \div num_points]

CircleOpen(center_x, center_y, radius, num_points) ==
    LET angles == Angles(num_points)
    IN  [k \in 1..num_points |->
            <<center_x + RoundDiv(radius * CosMilli(angles[k]), Milli),
              center_y + RoundDiv(radius * SinMilli(angles[k]), Milli)>>]

CircleNotClosed(center_x, center_y, radius, num_points) ==
    CircleOpen(center_x, center_y, radius, num_points)

\* sectra_dicom_to_qupath.py: circle_to_polygon
circle_to_polygon(center_x, center_y, radius, num_points) ==
    LET points == CircleOpen(center_x, center_y, radius, num_points)
    IN  Append(points, points[1])

\* radius = np.sqrt((radius_point_x - center_x)**2 + (radius_point_y - center_y)**2)
Radius(center, radius_point) ==
    SqrtOfSquares(radius_point[1] - center[1], radius_point[2] - center[2])

(***************************************************************************)
(* The document.  ds.items is the flattened list of the graphic and        *)
(* compound entries of ds.GraphicAnnotationSequence, in document order;    *)
(* newGroup marks the first entry of an annotation group and id is the     *)
(* entry's position.  The group's text label is not modelled.              *)
(***************************************************************************)
OnePoint == ListPayload(<<NumTok(1), NumTok(1)>>)
TwoPoints == ListPayload(<<NumTok(1), NumTok(1), NumTok(2), NumTok(1)>>)
TwoPointsBad == ListPayload(<<NumTok(1), StrTok(<<"x">>), NumTok(2), NumTok(2)>>)
ThreePoints ==
    TextPayload(<<"1", Backslash, "1", Backslash, "2", Backslash, "1",
                  Backslash, "2", Backslash, "2">>)

Entry(section, hasType, gtype, hasData, data, filledY) ==
    [section |-> section, hasType |-> hasType, gtype |-> gtype,
     hasData |-> hasData, data |-> data, filledY |-> filledY]

GraphicEntries ==
    {Entry("graphic", TRUE, t, TRUE, d, TRUE) :
        t \in {"POLYLINE", "CIRCLE", "ARROW"},
        d \in {OnePoint, TwoPoints, TwoPointsBad, ThreePoints}}
    \cup {Entry("graphic", TRUE, t, FALSE, NonePayload, TRUE) :
        t \in {"POLYLINE", "CIRCLE", "ARROW"}}
    \cup {Entry("graphic", TRUE, "POINT", TRUE, TwoPoints, TRUE),
          Entry("graphic", FALSE, "", TRUE, TwoPoints, TRUE),
          Entry("graphic", FALSE, "", FALSE, NonePayload, TRUE)}

CompoundEntries ==
    {Entry("compound", TRUE, t, TRUE, TwoPoints, FALSE) :
        t \in {"ARROW", "RULER", "CIRCLE", "POLYLINE"}}
    \cup {Entry("compound", TRUE, "ARROW", TRUE, OnePoint, FALSE),
          Entry("compound", FALSE, "", TRUE, TwoPoints, FALSE)}

Entries == GraphicEntries \cup CompoundEntries

Item(e, id, newGroup) ==
    [id |-> id, newGroup |-> newGroup, section |-> e.section,
     hasType |-> e.hasType, gtype |-> e.gtype, hasData |-> e.hasData,
     data |-> e.data, filledY |-> e.filledY]

\* a document: a list of entries cut into groups (the first opens a group)
Items(es, cuts) == [k \in 1..Len(es) |-> Item(es[k], k, k = 1 \/ cuts[k])]

\* the index of the group an item belongs to
GroupOf(items, k) == Cardinality({j \in 1..k : items[j].newGroup})

GroupCount(items) == GroupOf(items, Len(items))

\* ds.GraphicAnnotationSequence[g]
AnnotationSequence(items, g) ==
    LET mine == SelectSeq([k \in 1..Len(items) |->
                              [it |-> items[k], grp |-> GroupOf(items, k)]],
                          LAMBDA x : x.grp = g)
        own == [k \in 1..Len(mine) |-> mine[k].it]
    IN  [GraphicObjectSequence |-> SelectSeq(own, LAMBDA it : it.section = "graphic"),
         CompoundGraphicSequence |-> SelectSeq(own, LAMBDA it : it.section = "compound")]

(***************************************************************************)
(* Annotation walker and feature builder (sectra_dicom_to_qupath.py).      *)
(***************************************************************************)
None == [present |-> FALSE, val |-> 0, src |-> "none"]
Some(v, src) == [present |-> TRUE, val |-> v, src |-> src]

Object(id, type, filled, coordinates) ==
    [id |-> id, type |-> type, filled |-> filled, coordinates |-> coordinates,
     hasCircle |-> FALSE, center |-> <<0, 0>>, radius |-> 0,
     polygon_coordinates |-> <<>>]

\* extract_graphic_objects, the body of the loop over GraphicObjectSequence
GraphicObject(graphic_obj) ==
    LET obj_type == IF graphic_obj.hasType THEN graphic_obj.gtype ELSE "UNKNOWN"
        coordinates == IF graphic_obj.hasData
                       THEN extract_coordinates_robust(graphic_obj.data)
                       ELSE <<>>
        obj == Object(graphic_obj.id, obj_type, graphic_obj.filledY, coordinates)
    IN  IF obj.type = "CIRCLE" /\ Len(obj.coordinates) = 2
        THEN LET center == obj.coordinates[1]
                 radius == Radius(center, obj.coordinates[2])
             IN  [obj EXCEPT !.hasCircle = TRUE,
                             !.center = center,
                             !.radius = radius,
                             !.polygon_coordinates =
                                 circle_to_polygon(center[1], center[2], radius, NumPoints)]
        ELSE obj

CompoundAsArrow(compound_obj) ==
    <<Object(compound_obj.id, "ARROW", FALSE,
             IF compound_obj.hasData
             THEN extract_coordinates_robust(compound_obj.data)
             ELSE <<>>)>>

\* extract_graphic_objects, the body of the loop over CompoundGraphicSequence:
\* the objects it appends (none when the entry has no CompoundGraphicType)
CompoundObject(compound_obj) ==
    IF compound_obj.hasType
    THEN <<Object(compound_obj.id, compound_obj.gtype, FALSE,
                  IF compound_obj.hasData
                  THEN extract_coordinates_robust(compound_obj.data)
                  ELSE <<>>)>>
    ELSE <<>>

RECURSIVE Flatten(_)
Flatten(ss) == IF Len(ss) = 0 THEN <<>> ELSE Head(ss) \o Flatten(Tail(ss))

\* sectra_dicom_to_qupath.py: extract_graphic_objects
extract_graphic_objects(seq) ==
    [k \in 1..Len(seq.GraphicObjectSequence) |->
        GraphicObject(seq.GraphicObjectSequence[k])]
    \o Flatten([k \in 1..Len(seq.CompoundGraphicSequence) |->
        CompoundObject(seq.CompoundGraphicSequence[k])])

ScaleByWidthOnly(coordinates, w, h) ==
    IF ~w.present \/ ~h.present
    THEN coordinates
    ELSE [k \in 1..Len(coordinates) |->
            <<coordinates[k][1] * w.val,
              coordinates[k][2] * w.val>>]

\* sectra_dicom_to_qupath.py: scale_coordinates
scale_coordinates(coordinates, w, h) ==
    IF ~w.present \/ ~h.present
    THEN coordinates
    ELSE [k \in 1..Len(coordinates) |->
            <<coordinates[k][1] * w.val,
              coordinates[k][2] * h.val>>]

NoFeature ==
    [id |-> 0, geometry |-> "none", coordinates |-> <<>>, type |-> "",
     filled |-> FALSE, hasRadius |-> FALSE, radius |-> 0, center |-> <<0, 0>>]

LineFeature(obj, w, h) ==
    [id |-> obj.id, geometry |-> "LineString",
     coordinates |-> scale_coordinates(obj.coordinates, w, h),
     type |-> obj.type, filled |-> obj.filled,
     hasRadius |-> FALSE, radius |-> 0, center |-> <<0, 0>>]

PolygonFeature(obj, w, h) ==
    [id |-> obj.id, geometry |-> "Polygon",
     coordinates |-> scale_coordinates(obj.polygon_coordinates, w, h),
     type |-> obj.type, filled |-> obj.filled,
     hasRadius |-> TRUE, radius |-> obj.radius,
     center |-> scale_coordinates(<<obj.center>>, w, h)[1]]

FeatureOrRaiseOnePoint(obj, w, h) ==
    CASE obj.type = "POLYLINE" ->
            IF Len(obj.coordinates) > 0
            THEN Value(LineFeature(obj, w, h))
            ELSE Value(NoFeature)
      [] obj.type = "CIRCLE" ->
            IF obj.hasCircle
            THEN Value(PolygonFeature(obj, w, h))
            ELSE Raised
      [] obj.type = "ARROW" ->
            IF Len(obj.coordinates) > 1
            THEN Value(LineFeature(obj, w, h))
            ELSE Value(NoFeature)
      [] OTHER -> Value(NoFeature)

\* the body of create_geojson_feature's try block: the value returned, or
\* the exception raised (KeyError on obj["polygon_coordinates"])
FeatureOrRaise(obj, w, h) ==
    CASE obj.type = "POLYLINE" ->
            IF Len(obj.coordinates) > 1
            THEN Value(LineFeature(obj, w, h))
            ELSE Value(NoFeature)
      [] obj.type = "CIRCLE" ->
            IF obj.hasCircle
            THEN Value(PolygonFeature(obj, w, h))
            ELSE Raised
      [] obj.type = "ARROW" ->
            IF Len(obj.coordinates) > 1
            THEN Value(LineFeature(obj, w, h))
            ELSE Value(NoFeature)
      [] OTHER -> Value(NoFeature)

CreateFeatureUncaught(obj, w, h) == FeatureOrRaise(obj, w, h)

\* sectra_dicom_to_qupath.py: create_geojson_feature
create_geojson_feature(obj, w, h) ==
    LET r == FeatureOrRaise(obj, w, h)
    IN  IF r.exc THEN Value(NoFeature) ELSE r

\* dicom_to_geojson, the loop over one group's objects: an exception leaving
\* create_geojson_feature ends the group (except at the group level)
RECURSIVE FeaturesOfObjects(_, _, _)
FeaturesOfObjects(objs, w, h) ==
    IF Len(objs) = 0 THEN <<>>
    ELSE LET feature == create_geojson_feature(Head(objs), w, h)
         IN  IF feature.exc THEN <<>>
             ELSE (IF feature.val.geometry # "none" THEN <<feature.val>> ELSE <<>>)
                      \o FeaturesOfObjects(Tail(objs), w, h)

FeaturesOfSequence(annotation_seq, w, h) ==
    FeaturesOfObjects(extract_graphic_objects(annotation_seq), w, h)

\* dicom_to_geojson, the whole loop over GraphicAnnotationSequence, from group g
RECURSIVE FeaturesFrom(_, _, _, _)
FeaturesFrom(items, g, w, h) ==
    IF g > GroupCount(items) THEN <<>>
    ELSE FeaturesOfSequence(AnnotationSequence(items, g), w, h)
             \o FeaturesFrom(items, g + 1, w, h)

AllFeatures(items, w, h) == FeaturesFrom(items, 1, w, h)

(***************************************************************************)
(* The run of the geometry converter: main and dicom_to_geojson.           *)
(***************************************************************************)
Env(dcmread, image, openslide, pil, write) ==
    [dcmread |-> dcmread, image |-> image, openslide |-> openslide, pil |-> pil,
     write |-> write, raster |-> <<4, 5>>]

\* dcmread: pydicom.dcmread returns or raises
\* image: -s not given, given but missing, given and existing
\* openslide, pil: what opening the raster with each reader does
\*   (DimensionsError: OpenSlide() returns, reading slide.dimensions raises)
\* write: writing the output works, open() raises, or json.dump raises
Envs ==
    {Env(d, i, o, p, w) :
        d \in {"ok", "raises"},
        i \in {"none", "missing", "exists"},
        o \in {"ok", "ImportError", "FileNotFoundError", "OpenSlideError",
               "DimensionsError"},
        p \in {"ok", "ImportError", "FileNotFoundError", "UnidentifiedImageError"},
        w \in {"ok", "open_raises", "dump_raises"}}

PlainEnv == Env("ok", "none", "ok", "ok", "ok")

Hint(hasSeq, hasCorner, indexable, corner) ==
    [hasSeq |-> hasSeq, hasCorner |-> hasCorner, indexable |-> indexable,
     corner |-> corner]

NoHint == Hint(FALSE, FALSE, FALSE, <<>>)

\* the display-area hint: no DisplayedAreaSelectionSequence, an item without
\* the corner, a corner that cannot be indexed, corners of 0 to 3 components
Hints ==
    {NoHint, Hint(TRUE, FALSE, FALSE, <<>>), Hint(TRUE, TRUE, FALSE, <<2>>)}
        \cup {Hint(TRUE, TRUE, TRUE, c) : c \in {<<>>, <<2>>, <<2, 3>>, <<2, 3, 7>>}}

Dataset(hint, items) == [hint |-> hint, items |-> items]

SampleItems ==
    {<<>>,
     <<Item(Entry("graphic", TRUE, "POLYLINE", TRUE, TwoPoints, TRUE), 1, TRUE)>>,
     <<Item(Entry("graphic", TRUE, "CIRCLE", TRUE, TwoPoints, TRUE), 1, TRUE),
       Item(Entry("compound", TRUE, "ARROW", TRUE, TwoPoints, FALSE), 2, FALSE)>>}

NoFile == [state |-> "absent", features |-> <<>>]
NoHandles == [slide |-> "none", img |-> "none", f |-> "none"]
NoResult == [returned |-> FALSE, features |-> <<>>, image_width |-> None,
             image_height |-> None]

IdleCircle ==
    /\ cEntry = Item(Entry("graphic", TRUE, "CIRCLE", FALSE, NonePayload, FALSE), 1, TRUE)
    /\ cObject = Object(0, "", FALSE, <<>>)

IdleDecode ==
    /\ dPayload = NonePayload
    /\ dRobust = [status |-> "idle", coords |-> <<>>]
    /\ dImageScope = [status |-> "idle", coords |-> <<>>]

XmlEnv(dcmread, write) == [dcmread |-> dcmread, write |-> write]

NoXmlFile == [state |-> "absent", root |-> <<>>]

IdleXml ==
    /\ xenv = XmlEnv("ok", "ok")
    /\ xpc = "idle"
    /\ xi = 1
    /\ ann_id = 0
    /\ region_id = 0
    /\ root = <<>>
    /\ xml_file = NoXmlFile
    /\ xf = "none"

IdleScale ==
    /\ sCoordinates = <<>>
    /\ sWidth = None
    /\ sHeight = None
    /\ sScaled = [status |-> "idle", coords |-> <<>>]

Init ==
    /\ \/ env \in Envs /\ ds \in {Dataset(h, it) : h \in Hints, it \in SampleItems}
       \/ /\ env = PlainEnv
          /\ \E h \in {NoHint, Hint(TRUE, TRUE, TRUE, <<2, 3>>)}, len \in 0..MaxItems :
                \E es \in [1..len -> Entries], cuts \in [2..len -> BOOLEAN] :
                    ds = Dataset(h, Items(es, cuts))
    /\ pc = "dcmread"
    /\ exc = "none"
    /\ image_width = None
    /\ image_height = None
    /\ gi = 1
    /\ graphic_objects = <<>>
    /\ features = <<>>
    /\ out_file = NoFile
    /\ result = NoResult
    /\ exit_code = 0
    /\ handles = NoHandles
    /\ IdleDecode
    /\ IdleCircle
    /\ IdleScale
    /\ IdleXml

\* dicom_to_geojson: ds = pydicom.dcmread(dicom_file)
DcmRead ==
    /\ pc = "dcmread"
    /\ IF env.dcmread = "ok"
       THEN pc' = "image" /\ exc' = exc
       ELSE pc' = "except" /\ exc' = "dcmread"
    /\ UNCHANGED <<env, ds, image_width, image_height, gi, graphic_objects, features, out_file,
                   result, exit_code, handles, harnessVars>>

FromRaster(e) == <<Some(e.raster[1], "raster"), Some(e.raster[2], "raster")>>

\* sectra_dicom_to_qupath.py: read_image_dimensions
read_image_dimensions(e) ==
    IF e.openslide = "ok" THEN Value(FromRaster(e))
    ELSE IF e.openslide \in {"ImportError", "FileNotFoundError"}
    THEN IF e.pil = "ok" THEN Value(FromRaster(e))
         ELSE IF e.pil \in {"ImportError", "FileNotFoundError"}
         THEN Value(<<None, None>>)
         ELSE Raised
    ELSE Raised

\* read_image_dimensions: the slide when the function is left; slide.close()
\* follows the read of slide.dimensions in the try block
SlideAfter(e) ==
    CASE e.openslide = "ok" -> "closed"
      [] e.openslide = "DimensionsError" -> "open"
      [] OTHER -> "none"

\* read_image_dimensions: the PIL image when the function is left
\* (with Image.open(image_path) as img)
ImageAfter(e) ==
    IF e.openslide \in {"ImportError", "FileNotFoundError"} /\ e.pil = "ok"
    THEN "closed" ELSE "none"

\* dicom_to_geojson: image dimensions from the image file, if provided
ReadImageDimensions ==
    /\ pc = "image"
    /\ IF env.image = "exists"
       THEN LET r == read_image_dimensions(env)
            IN  IF r.exc
                THEN /\ pc' = "except"
                     /\ exc' = "read_image_dimensions"
                     /\ UNCHANGED <<image_width, image_height>>
                ELSE /\ pc' = "dicom"
                     /\ exc' = exc
                     /\ image_width' = r.val[1]
                     /\ image_height' = r.val[2]
       ELSE /\ pc' = "dicom"
            /\ UNCHANGED <<exc, image_width, image_height>>
    /\ handles' = IF env.image = "exists"
                  THEN [handles EXCEPT !.slide = SlideAfter(env),
                                       !.img = ImageAfter(env)]
                  ELSE handles
    /\ UNCHANGED <<env, ds, gi, graphic_objects, features, out_file, result, exit_code, harnessVars>>

\* dicom_to_geojson: the two assignments from DisplayedAreaBottomRightHandCorner;
\* an exception at either subscript is caught and leaves what was assigned
HintUsable(hint) == hint.hasSeq /\ hint.hasCorner /\ hint.indexable

WidthFromDicom(hint, w) ==
    IF HintUsable(hint) /\ Len(hint.corner) >= 1
    THEN Some(hint.corner[1], "hint") ELSE w

HeightFromDicom(hint, h) ==
    IF HintUsable(hint) /\ Len(hint.corner) >= 2
    THEN Some(hint.corner[2], "hint") ELSE h

\* dicom_to_geojson: image dimensions from the DICOM dataset
DimensionsFromDicom ==
    /\ pc = "dicom"
    /\ IF ~image_width.present \/ ~image_height.present
       THEN /\ image_width' = WidthFromDicom(ds.hint, image_width)
            /\ image_height' = HeightFromDicom(ds.hint, image_height)
       ELSE UNCHANGED <<image_width, image_height>>
    /\ pc' = "annotations"
    /\ UNCHANGED <<env, ds, exc, gi, graphic_objects, features, out_file, result, exit_code,
                   handles, harnessVars>>

\* dicom_to_geojson: one iteration of the loop over GraphicAnnotationSequence
ProcessAnnotationSequence ==
    /\ pc = "annotations"
    /\ gi <= GroupCount(ds.items)
    /\ graphic_objects' = extract_graphic_objects(AnnotationSequence(ds.items, gi))
    /\ features' = features \o FeaturesOfObjects(graphic_objects', image_width,
                                                 image_height)
    /\ gi' = gi + 1
    /\ UNCHANGED <<env, ds, pc, exc, image_width, image_height, out_file, result,
                   exit_code, handles, harnessVars>>

Collection(fs, w, h) ==
    [returned |-> TRUE, features |-> fs, image_width |-> w, image_height |-> h]

\* with open(...) as f: the file when the with statement is left
FileAfter(write) == IF write = "open_raises" THEN "none" ELSE "closed"

\* dicom_to_geojson: the collection, its metadata, and the output file
SaveOutput ==
    /\ pc = "annotations"
    /\ gi > GroupCount(ds.items)
    /\ CASE env.write = "ok" ->
               /\ out_file' = [state |-> "complete", features |-> features]
               /\ result' = Collection(features, image_width, image_height)
               /\ pc' = "returned"
               /\ exc' = exc
         [] env.write = "open_raises" ->
               /\ pc' = "except"
               /\ exc' = "open"
               /\ UNCHANGED <<out_file, result>>
         [] OTHER ->
               /\ out_file' = [state |-> "partial", features |-> <<>>]
               /\ pc' = "except"
               /\ exc' = "json.dump"
               /\ UNCHANGED result
    /\ handles' = [handles EXCEPT !.f = FileAfter(env.write)]
    /\ UNCHANGED <<env, ds, image_width, image_height, gi, graphic_objects, features, exit_code,
                   harnessVars>>

\* dicom_to_geojson: except Exception: return FeatureCollection([])
HandleError ==
    /\ pc = "except"
    /\ result' = Collection(<<>>, None, None)
    /\ pc' = "returned"
    /\ UNCHANGED <<env, ds, exc, image_width, image_height, gi, graphic_objects, features, out_file,
                   exit_code, handles, harnessVars>>

\* main: the call returned (sys.exit(1) needs an exception to leave
\* dicom_to_geojson, whose handler lets none out)
MainExit ==
    /\ pc = "returned"
    /\ exit_code' = IF result.returned THEN 0 ELSE 1
    /\ pc' = "exited"
    /\ UNCHANGED <<env, ds, exc, image_width, image_height, gi, graphic_objects, features, out_file,
                   result, handles, harnessVars>>

Next ==
    \/ DcmRead
    \/ ReadImageDimensions
    \/ DimensionsFromDicom
    \/ ProcessAnnotationSequence
    \/ SaveOutput
    \/ HandleError
    \/ MainExit

Spec == Init /\ [][Next]_vars

(***************************************************************************)
(* Decoder harness: a payload is drawn and each decoder is applied to it.  *)
(***************************************************************************)
Pending == [status |-> "pending", coords |-> <<>>]
Returned(c) == [status |-> "returned", coords |-> c]

IdleRun ==
    /\ env = PlainEnv
    /\ ds = Dataset(NoHint, <<>>)
    /\ pc = "idle"
    /\ exc = "none"
    /\ image_width = None
    /\ image_height = None
    /\ gi = 1
    /\ graphic_objects = <<>>
    /\ features = <<>>
    /\ out_file = NoFile
    /\ result = NoResult
    /\ exit_code = 0
    /\ handles = NoHandles

InitDecode ==
    /\ dPayload \in Payloads
    /\ dRobust = Pending
    /\ dImageScope = Pending
    /\ IdleRun
    /\ IdleCircle
    /\ IdleScale
    /\ IdleXml

\* the geometry converter decodes the payload
DecodeRobust ==
    /\ dRobust.status = "pending"
    /\ dRobust' = Returned(extract_coordinates_robust(dPayload))
    /\ UNCHANGED <<dPayload, dImageScope, geoVars, circleVars, scaleVars, xmlVars>>

\* the ImageScope converter decodes the payload
DecodeImageScope ==
    /\ dImageScope.status = "pending"
    /\ dImageScope' = Returned(ExtractCoordinates(dPayload))
    /\ UNCHANGED <<dPayload, dRobust, geoVars, circleVars, scaleVars, xmlVars>>

NextDecode == DecodeRobust \/ DecodeImageScope

SpecDecode == InitDecode /\ [][NextDecode]_vars

(***************************************************************************)
(* Circle harness: a CIRCLE entry with two decoded points is drawn and the *)
(* walker builds its object (center, radius, polygon).                     *)
(***************************************************************************)
CirclePayloads ==
    {ListPayload(<<NumTok(cx), NumTok(cy), NumTok(px), NumTok(py)>>) :
        cx \in 0..MaxCoord, cy \in 0..MaxCoord, px \in 0..MaxCoord, py \in 0..MaxCoord}

InitCircle ==
    /\ cEntry \in {Item(Entry("graphic", TRUE, "CIRCLE", TRUE, d, f), 1, TRUE) :
                       d \in CirclePayloads, f \in BOOLEAN}
    /\ cObject = Object(0, "", FALSE, <<>>)
    /\ IdleRun
    /\ IdleDecode
    /\ IdleScale
    /\ IdleXml

\* the walker builds the object of the entry
NormalizeCircle ==
    /\ cObject.id = 0
    /\ cObject' = GraphicObject(cEntry)
    /\ UNCHANGED <<cEntry, geoVars, decVars, scaleVars, xmlVars>>

NextCircle == NormalizeCircle

SpecCircle == InitCircle /\ [][NextCircle]_vars

(***************************************************************************)
(* Scaling harness: a list of points and a width and a height are drawn    *)
(* and scale_coordinates is applied to them.                               *)
(***************************************************************************)
\* points on the half-unit grid, as fixed-point floats
GridValues == {(c * Milli) \div 2 : c \in 0..MaxCoord}
GridPoints == GridValues \X GridValues
Dimensions == {None} \cup {Some(v, "raster") : v \in 0..MaxDim}

InitScale ==
    /\ sCoordinates \in SeqsUpTo(GridPoints, MaxPoints)
    /\ sWidth \in Dimensions
    /\ sHeight \in Dimensions
    /\ sScaled = Pending
    /\ IdleRun
    /\ IdleDecode
    /\ IdleCircle
    /\ IdleXml

\* the feature builder scales the points
ScaleCoordinates ==
    /\ sScaled.status = "pending"
    /\ sScaled' = Returned(scale_coordinates(sCoordinates, sWidth, sHeight))
    /\ UNCHANGED <<sCoordinates, sWidth, sHeight, geoVars, decVars, circleVars,
                   xmlVars>>

NextScale == ScaleCoordinates

SpecScale == InitScale /\ [][NextScale]_vars

(***************************************************************************)
(* The run of the ImageScope converter: dicom_file_to_imagescope.          *)
(***************************************************************************)
\* sectra_dicom_to_imagescope.py: _extract_graphics
ExtractGraphics(seq) ==
    LET coords(obj) == ExtractCoordinates(IF obj.hasData THEN obj.data
                                          ELSE NonePayload)
        all == [k \in 1..Len(seq.GraphicObjectSequence) |->
                   coords(seq.GraphicObjectSequence[k])]
    IN  SelectSeq(all, LAMBDA c : Len(c) > 0)

\* a Region element; Id is the text str(region_id), Vertices the (x, y) whose
\* str() are the X and Y attributes of its Vertex elements
Region(id, poly) ==
    [Id |-> DecimalText(id), Type |-> "0", LineColor |-> "65280",
     Vertices |-> poly]

\* an Annotation element with its Regions
Annotation(id, polygons, first_region) ==
    [Id |-> DecimalText(id),
     Name |-> <<"A", "n", "n", "o", "t", "a", "t", "i", "o", "n", " ">>
                  \o DecimalText(id),
     ReadOnly |-> "0",
     Regions |-> [k \in 1..Len(polygons) |->
                     Region(first_region + k, polygons[k])]]

XmlState(r, a, g) == [root |-> r, ann_id |-> a, region_id |-> g]

AnnotationStepNoSkip(st, seq) ==
    LET polygons == ExtractGraphics(seq)
    IN  XmlState(Append(st.root,
                        Annotation(st.ann_id + 1, polygons, st.region_id)),
                 st.ann_id + 1,
                 st.region_id + Len(polygons))

\* dicom_to_imagescope_xml: the body of the loop over GraphicAnnotationSequence
AnnotationStep(st, seq) ==
    LET polygons == ExtractGraphics(seq)
    IN  IF Len(polygons) = 0
        THEN st
        ELSE XmlState(Append(st.root,
                             Annotation(st.ann_id + 1, polygons, st.region_id)),
                      st.ann_id + 1,
                      st.region_id + Len(polygons))

\* dicom_file_to_imagescope: ds = pydicom.dcmread(dicom_path)
XmlDcmRead ==
    /\ xpc = "dcmread"
    /\ xpc' = IF xenv.dcmread = "ok" THEN "annotations" ELSE "raised"
    /\ UNCHANGED <<xenv, xi, ann_id, region_id, root, xml_file, xf, geoVars, decVars,
                   circleVars, scaleVars>>

\* dicom_to_imagescope_xml: one iteration of the loop
XmlAnnotationSequence ==
    /\ xpc = "annotations"
    /\ xi <= GroupCount(ds.items)
    /\ LET st == AnnotationStep(XmlState(root, ann_id, region_id),
                                AnnotationSequence(ds.items, xi))
       IN  /\ root' = st.root
           /\ ann_id' = st.ann_id
           /\ region_id' = st.region_id
    /\ xi' = xi + 1
    /\ UNCHANGED <<xenv, xpc, xml_file, xf, geoVars, decVars, circleVars, scaleVars>>

\* dicom_file_to_imagescope: ET.tostring(root) and the write of the file
XmlWrite ==
    /\ xpc = "annotations"
    /\ xi > GroupCount(ds.items)
    /\ CASE xenv.write = "ok" ->
               /\ xml_file' = [state |-> "complete", root |-> root]
               /\ xpc' = "done"
         [] xenv.write = "open_raises" ->
               /\ xml_file' = xml_file
               /\ xpc' = "raised"
         [] OTHER ->
               /\ xml_file' = [state |-> "partial", root |-> <<>>]
               /\ xpc' = "raised"
    /\ xf' = FileAfter(xenv.write)
    /\ UNCHANGED <<xenv, xi, ann_id, region_id, root, geoVars, decVars, circleVars,
                   scaleVars>>

NextImageScope ==
    \/ XmlDcmRead
    \/ XmlAnnotationSequence
    \/ XmlWrite

(***************************************************************************)
(* Both converters run on the same document, independently.                *)
(***************************************************************************)
OutputEntries ==
    {Entry("graphic", TRUE, "POLYLINE", TRUE, ThreePoints, TRUE),
     Entry("graphic", TRUE, "CIRCLE", TRUE, TwoPoints, TRUE),
     Entry("graphic", TRUE, "ARROW", TRUE, OnePoint, TRUE),
     Entry("graphic", TRUE, "POLYLINE", FALSE, NonePayload, TRUE),
     Entry("compound", TRUE, "ARROW", TRUE, TwoPoints, FALSE)}

\* both runs at their first statement
BothStart ==
    /\ pc = "dcmread"
    /\ exc = "none"
    /\ image_width = None
    /\ image_height = None
    /\ gi = 1
    /\ graphic_objects = <<>>
    /\ features = <<>>
    /\ out_file = NoFile
    /\ result = NoResult
    /\ exit_code = 0
    /\ handles = NoHandles
    /\ xenv \in {XmlEnv(d, w) : d \in {"ok", "raises"},
                                 w \in {"ok", "open_raises", "write_raises"}}
    /\ xpc = "dcmread"
    /\ xi = 1
    /\ ann_id = 0
    /\ region_id = 0
    /\ root = <<>>
    /\ xml_file = NoXmlFile
    /\ xf = "none"
    /\ IdleDecode
    /\ IdleCircle
    /\ IdleScale

InitOutputs ==
    /\ env \in {Env(d, "none", "ok", "ok", "ok") : d \in {"ok", "raises"}}
    /\ \E len \in 0..MaxItems :
          \E es \in [1..len -> OutputEntries], cuts \in [2..len -> BOOLEAN] :
              ds = Dataset(NoHint, Items(es, cuts))
    /\ BothStart

NextOutputs == Next \/ NextImageScope

SpecOutputs == InitOutputs /\ [][NextOutputs]_vars

\* every outcome of reading and writing, on a few documents
InitResources ==
    /\ env \in Envs
    /\ ds \in {Dataset(NoHint, it) : it \in SampleItems}
    /\ BothStart

SpecResources == InitResources /\ [][NextOutputs]_vars

(***************************************************************************)
(* Claims C1 to C4: scale resolution, the outer handler and the exit code. *)
(***************************************************************************)
BothReadersFail ==
    env.image = "exists" /\ env.openslide # "ok" /\ env.pil # "ok"

Unscaled == AllFeatures(ds.items, None, None)

\* C1: when the raster path exists and both the whole-slide reader and the
\* fallback reader fail on it, for whatever reason, scale resolution ends
\* without an exception and with width and height absent; the run goes on,
\* and without a display-area hint the output holds the unscaled coordinates.
C1_RasterFailureIsNotFatal ==
    (env.dcmread = "ok" /\ BothReadersFail /\ pc \notin {"dcmread", "image"}) =>
        /\ exc # "read_image_dimensions"
        /\ pc = "dicom" => ~image_width.present /\ ~image_height.present
        /\ (ds.hint = NoHint /\ pc \in {"returned", "exited"} /\ exc = "none")
              => result.features = Unscaled

ScaleResolved == pc \notin {"dcmread", "image", "dicom"}

\* C2: after scale resolution width and height are both present or both
\* absent, and when present they come from the same source.
C2_WidthAndHeightTogether ==
    ScaleResolved =>
        /\ image_width.present <=> image_height.present
        /\ image_width.present => image_width.src = image_height.src

\* C3: when an exception reached the outer handler of dicom_to_geojson, the
\* output file exists and holds an empty, well-formed feature collection.
C3_EmptyFileOnError ==
    (pc \in {"returned", "exited"} /\ exc # "none") =>
        out_file = [state |-> "complete", features |-> <<>>]

\* C4: the process exits with a non-zero code exactly when the source
\* document could not be read; every other failure ends with exit code 0.
C4_ExitCode ==
    pc = "exited" => (exit_code # 0 <=> env.dcmread = "raises")

(***************************************************************************)
(* What the claims say of a payload, stated without the decoders.          *)
(***************************************************************************)
Cuts(t) == {i \in 1..Len(t) : t[i] = Backslash}

\* the number of scalar tokens of a payload
TokenCount(p) ==
    CASE p.kind = "list" -> Len(p.items)
      [] p.kind = "text" -> Cardinality(Cuts(p.text)) + 1
      [] p.kind = "scalar" -> 1
      [] OTHER -> 0

NthCut(t, n) == CHOOSE i \in Cuts(t) : Cardinality({j \in Cuts(t) : j <= i}) = n

\* the n-th token of a payload of at least two tokens
TokenAt(p, n) ==
    IF p.kind = "list" THEN p.items[n]
    ELSE LET from == IF n = 1 THEN 0 ELSE NthCut(p.text, n - 1)
             to == IF n > Cardinality(Cuts(p.text)) THEN Len(p.text) + 1
                   ELSE NthCut(p.text, n)
         IN  StrTok(SubSeq(p.text, from + 1, to - 1))

Coercible(tok) ==
    tok.kind = "num" \/ (tok.kind = "str" /\ FloatParses(tok.text))

TokenValue(tok) ==
    IF tok.kind = "num" THEN Milli * tok.num ELSE FloatOfText(tok.text)

Decoded == {r \in {dRobust, dImageScope} : r.status = "returned"}

\* C6: both decoders return for every payload; a token that cannot be
\* coerced becomes 0.0 in its pair, the pair is still emitted, and the
\* number of pairs depends on the number of tokens only.
C6_UncoercibleTokenIsZero ==
    \A r \in Decoded :
        /\ Len(r.coords) = TokenCount(dPayload) \div 2
        /\ \A k \in 1..Len(r.coords), c \in 1..2 :
              ~Coercible(TokenAt(dPayload, 2 * (k - 1) + c)) => r.coords[k][c] = 0

C6_Witness ==
    /\ dRobust.status = "returned"
    /\ dImageScope.status = "returned"
    /\ dPayload.kind = "text"
    /\ TokenCount(dPayload) = 2
    /\ ~Coercible(TokenAt(dPayload, 1))
    /\ Coercible(TokenAt(dPayload, 2))
    /\ Len(dRobust.coords) = 1
    /\ dRobust.coords[1][1] = 0

\* C7: a payload of n tokens decodes to floor(n/2) pairs, pair k made of
\* tokens 2k and 2k+1 (counted from 0) in input order; the last token of an
\* odd payload is dropped.
C7_PairsInOrder ==
    \A r \in Decoded :
        /\ Len(r.coords) = TokenCount(dPayload) \div 2
        /\ \A k \in 1..Len(r.coords), c \in 1..2 :
              LET tok == TokenAt(dPayload, 2 * (k - 1) + c)
              IN  Coercible(tok) => r.coords[k][c] = TokenValue(tok)

C7_Witness ==
    /\ dRobust.status = "returned"
    /\ dImageScope.status = "returned"
    /\ TokenCount(dPayload) = 3
    /\ \A n \in 1..3 : Coercible(TokenAt(dPayload, n))
    /\ TokenValue(TokenAt(dPayload, 1)) # TokenValue(TokenAt(dPayload, 2))
    /\ Len(dRobust.coords) = 1
    /\ Len(dImageScope.coords) = 1

(***************************************************************************)
(* Claim C8: the circle.                                                   *)
(***************************************************************************)
SquaredDistance(p, q) ==
    (p[1] - q[1]) * (p[1] - q[1]) + (p[2] - q[2]) * (p[2] - q[2])

\* the rounding error of the fixed-point arithmetic at radius r
Tolerance(r) == (r \div Milli) + 1

AtDistance(p, q, r) ==
    LET lo == IF r > Tolerance(r) THEN r - Tolerance(r) ELSE 0
        hi == r + Tolerance(r)
    IN  lo * lo <= SquaredDistance(p, q) /\ SquaredDistance(p, q) <= hi * hi

EntryPoint(e, n) ==
    <<Milli * e.data.items[2 * n - 1].num, Milli * e.data.items[2 * n].num>>

LoopDone ==
    /\ pc \in {"annotations", "except", "returned", "exited"}
    /\ exc \notin {"dcmread", "read_image_dimensions"}
    /\ gi > GroupCount(ds.items)

ItemIds == 1..Len(ds.items)

\* the number of coordinate pairs an entry holds
PairCount(it) == IF it.hasData THEN TokenCount(it.data) \div 2 ELSE 0

HasUncoercible(it) ==
    /\ it.hasData
    /\ TokenCount(it.data) >= 2
    /\ \E n \in 1..(2 * PairCount(it)) : ~Coercible(TokenAt(it.data, n))

\* an entry with a missing type or data field, an undecodable coordinate,
\* or of type CIRCLE without exactly two pairs
Anomalous(it) ==
    \/ ~it.hasType
    \/ ~it.hasData
    \/ HasUncoercible(it)
    \/ it.gtype = "CIRCLE" /\ PairCount(it) # 2
    \/ it.gtype = "CIRCLE" /\ it.section = "compound"

\* the document without its k-th entry; the entry after it opens the group
\* when the k-th did
WithoutItem(items, k) ==
    LET opened == [j \in 1..Len(items) |->
                     IF j = k + 1 /\ items[k].newGroup
                     THEN [items[j] EXCEPT !.newGroup = TRUE]
                     ELSE items[j]]
    IN  SubSeq(opened, 1, k - 1) \o SubSeq(opened, k + 1, Len(opened))

NotOf(fs, k) == SelectSeq(fs, LAMBDA f : f.id # k)

\* C5: an anomalous primitive costs at most its own feature: the features of
\* all other primitives, of its group and of the other groups, are those of
\* the document without it, in the same order.
C5_AnomalyIsIsolated ==
    LoopDone =>
        \A k \in ItemIds :
            Anomalous(ds.items[k]) =>
                NotOf(features, k)
                    = AllFeatures(WithoutItem(ds.items, k), image_width, image_height)

C5_Witness ==
    /\ pc = "exited"
    /\ exc = "none"
    /\ Len(ds.items) = 2
    /\ ~ds.items[2].newGroup
    /\ ds.items[1].gtype = "CIRCLE"
    /\ ds.items[1].section = "graphic"
    /\ PairCount(ds.items[1]) = 1
    /\ ~Anomalous(ds.items[2])
    /\ Len(out_file.features) = 1
    /\ out_file.features[1].id = 2

\* the kind of the primitive of an entry
Kind(it) == IF it.hasType THEN it.gtype ELSE "UNKNOWN"

\* entries that become a primitive at all
IsPrimitive(it) == it.section = "graphic" \/ it.hasType

IsLine(it) ==
    IsPrimitive(it) /\ Kind(it) \in {"POLYLINE", "ARROW"} /\ PairCount(it) >= 2

GeometryClaimed(it) ==
    IF IsLine(it) THEN "LineString"
    ELSE IF IsPrimitive(it) /\ Kind(it) = "CIRCLE" /\ PairCount(it) = 2 THEN "Polygon"
    ELSE "none"

GeometryAmended(it) ==
    IF IsLine(it) THEN "LineString"
    ELSE IF it.section = "graphic" /\ Kind(it) = "CIRCLE" /\ PairCount(it) = 2
    THEN "Polygon"
    ELSE "none"

\* the geometry of the features built for entry k
GeometryOf(fs, k) ==
    LET mine == SelectSeq(fs, LAMBDA f : f.id = k)
    IN  IF Len(mine) = 0 THEN "none"
        ELSE IF Len(mine) = 1 THEN mine[1].geometry
        ELSE "several"

LastCompound ==
    {k \in ItemIds : /\ pc = "annotations"
                     /\ gi > 1
                     /\ GroupOf(ds.items, k) = gi - 1
                     /\ ds.items[k].section = "compound"}

ObjectsOf(k) == SelectSeq(graphic_objects, LAMBDA o : o.id = k)

\* C10 as claimed: every compound entry becomes one primitive of kind ARROW
\* with filled = false, whatever its type field, and so yields a LINE
\* feature whenever it has at least 2 points.
C10_CompoundIsArrow ==
    \A k \in LastCompound :
        /\ Len(ObjectsOf(k)) = 1
        /\ ObjectsOf(k)[1].type = "ARROW"
        /\ ~ObjectsOf(k)[1].filled
        /\ PairCount(ds.items[k]) >= 2 => GeometryOf(features, k) = "LineString"

\* C10 as amended: a compound entry with a type field becomes one primitive
\* of the kind its type field names, with filled = false, and yields a LINE
\* feature exactly when that kind is ARROW or POLYLINE and it has at least 2
\* points; an entry without a type field becomes no primitive.
C10_CompoundKeepsType ==
    \A k \in LastCompound :
        IF ds.items[k].hasType
        THEN /\ Len(ObjectsOf(k)) = 1
             /\ ObjectsOf(k)[1].type = ds.items[k].gtype
             /\ ~ObjectsOf(k)[1].filled
             /\ GeometryOf(features, k) = "LineString"
                   <=> (ds.items[k].gtype \in {"ARROW", "POLYLINE"}
                           /\ PairCount(ds.items[k]) >= 2)
        ELSE /\ Len(ObjectsOf(k)) = 0
             /\ GeometryOf(features, k) = "none"

C10_Witness ==
    \E k \in LastCompound :
        /\ ds.items[k].hasType
        /\ ds.items[k].gtype = "RULER"
        /\ PairCount(ds.items[k]) = 2
        /\ Len(ObjectsOf(k)) = 1
        /\ ObjectsOf(k)[1].type = "RULER"
        /\ GeometryOf(features, k) = "none"

(***************************************************************************)
(* Claim C11: scaling.                                                     *)
(***************************************************************************)
\* C11: scale_coordinates maps every point (x, y) to (x * width, y * height)
\* when width and height are both present and returns the points unchanged
\* when either is absent; with width = 1 and height = 1 every coordinate
\* equals its input; the order and the number of points are preserved.
C11_ScalingIsElementwise ==
    sScaled.status = "returned" =>
        /\ Len(sScaled.coords) = Len(sCoordinates)
        /\ (sWidth.present /\ sHeight.present) =>
              \A k \in 1..Len(sCoordinates) :
                  sScaled.coords[k] = <<sCoordinates[k][1] * sWidth.val,
                                        sCoordinates[k][2] * sHeight.val>>
        /\ (~sWidth.present \/ ~sHeight.present) => sScaled.coords = sCoordinates
        /\ (sWidth = Some(1, "raster") /\ sHeight = Some(1, "raster"))
              => sScaled.coords = sCoordinates

C11_Witness ==
    /\ sScaled.status = "returned"
    /\ sWidth = Some(2, "raster")
    /\ sHeight = Some(1, "raster")
    /\ sCoordinates = <<<<Milli, Milli \div 2>>, <<Milli \div 2, Milli>>>>
    /\ sScaled.coords = <<<<2 * Milli, Milli \div 2>>, <<Milli, Milli>>>>

(***************************************************************************)
(* Claim C12: groups without primitives, Annotation Ids, empty documents.  *)
(***************************************************************************)
\* a group the ImageScope converter has a primitive for: one of its
\* graphic-object entries decodes to at least one pair
NonEmptyGroup(items, g) ==
    \E k \in 1..Len(items) :
        /\ GroupOf(items, k) = g
        /\ items[k].section = "graphic"
        /\ items[k].hasData
        /\ Len(ExtractCoordinates(items[k].data)) > 0

NonEmptyGroups(items) == {g \in 1..GroupCount(items) : NonEmptyGroup(items, g)}

\* the k-th non-empty group, in document order
NthNonEmpty(items, k) ==
    CHOOSE g \in NonEmptyGroups(items) :
        Cardinality({h \in NonEmptyGroups(items) : h <= g}) = k

Polygons(annotation) ==
    [j \in 1..Len(annotation.Regions) |-> annotation.Regions[j].Vertices]

NoFailure == pc \in {"returned", "exited"} /\ exc = "none"

\* C12: a group that yields no primitive produces no entry: every Annotation
\* element of the ImageScope output has at least one Region; the Annotation
\* elements are those of the non-empty groups, in document order, with Ids
\* 1..k without gaps; a document with no annotation group yields, when the
\* run meets no failure, a complete output with no region (ImageScope) and
\* no feature (feature collection).
C12_NoEmptyAnnotation ==
    /\ \A k \in 1..Len(root) :
          /\ Len(root[k].Regions) >= 1
          /\ root[k].Id = DecimalText(k)
          /\ Polygons(root[k]) =
                ExtractGraphics(AnnotationSequence(ds.items,
                                                   NthNonEmpty(ds.items, k)))
    /\ Len(root) = Cardinality({g \in NonEmptyGroups(ds.items) : g < xi})
    /\ xpc = "done" => xml_file = [state |-> "complete", root |-> root]
    /\ xml_file.state = "complete" => xml_file.root = root
    /\ GroupCount(ds.items) = 0 =>
          /\ xpc = "done" => xml_file.root = <<>>
          /\ NoFailure => out_file = [state |-> "complete", features |-> <<>>]
          /\ NoFailure => result.features = <<>>

C12_Witness ==
    /\ xpc = "done"
    /\ GroupCount(ds.items) = 2
    /\ ~NonEmptyGroup(ds.items, 1)
    /\ NonEmptyGroup(ds.items, 2)
    /\ Len(xml_file.root) = 1
    /\ xml_file.root[1].Id = <<"1">>
    /\ Len(xml_file.root[1].Regions) = 1

(***************************************************************************)
(* Claim C13: release of the resources a run opens.                        *)
(***************************************************************************)
\* C13: every resource a converter opens (the slide or the image of the
\* raster, the output file) is released when its consumer has finished, on
\* every path: once read_image_dimensions or the write of the output is
\* left, normally or by an exception, no handle it opened is still open, and
\* no run ends with an open raster handle.
C13_ResourcesReleased ==
    /\ handles.slide # "open"
    /\ handles.img # "open"
    /\ handles.f # "open"
    /\ xf # "open"

====
